---- MODULE Spec2Model ----
(***************************************************************************)
(* Model of tools/export-asic/export-asic.cpp: the export-asic driver      *)
(* (main), the export session (ASICExportInfo), the script generators and  *)
(* the LibreLane flow runner (runLibreLaneFlow).                           *)
(*                                                                         *)
(* RTLConfiguration::parseFromFile, the reference matcher and              *)
(* ASICExportInfo::concretizeExternalModules are declared and called in    *)
(* export-asic.cpp but defined elsewhere; they are modelled from the       *)
(* specification (sections 4.1 - 4.4).                                     *)
(***************************************************************************)
EXTENDS Integers, Sequences, FiniteSets, TLC

(* ------------------------------ bounds --------------------------------- *)
\* largest number of external modules in the input design
MaxRefs == 2
\* largest number of RTL configuration files on the command line
MaxConfigs == 2

(* ------------------------------ inputs --------------------------------- *)
Names == {"adder", "mul"}
Widths == {8, 32}
\* rule width accepting any parameter value
AnyWidth == 0

\* an external module of the design: a name and its parameter set
ModuleReference == [name : Names, width : Widths]

\* one generator rule of a configuration file: predicate (name, width) and a
\* generation procedure that either produces output or fails
Rule(n, w, g) == [name |-> n, width |-> w, gen |-> g]

\* contents of the configuration files that may be named on the command line
ConfigFiles ==
  { [ok |-> FALSE, rules |-> <<>>],
    [ok |-> TRUE,  rules |-> <<>>],
    [ok |-> TRUE,  rules |-> <<Rule("adder", AnyWidth, "ok")>>],
    [ok |-> TRUE,  rules |-> <<Rule("adder", 32, "bad"), Rule("mul", AnyWidth, "ok")>>],
    [ok |-> TRUE,  rules |-> <<Rule("adder", 32, "ok"), Rule("adder", AnyWidth, "ok")>>] }

SeqsUpTo(S, n) == UNION { [1..k -> S] : k \in 0..n }

\* the designs the parser may produce: external modules in enumeration order
Designs == SeqsUpTo(ModuleReference, MaxRefs)

\* cl::OneOrMore: at least one configuration file
ConfigLists == SeqsUpTo(ConfigFiles, MaxConfigs) \ {<<>>}

FlowPaths == {"", "/opt/librelane"}

(* ------------------------------ files ---------------------------------- *)
DesignFile == "design.v"
YosysFile == "synthesize.tcl"
LibreLaneConfigFile == "config.tcl"
RunScript == "run_librelane.sh"
Artifacts == {DesignFile, YosysFile, LibreLaneConfigFile, RunScript}

(* ------------------------------ state ---------------------------------- *)
VARIABLES
  module,        \* external modules of the parsed input design
  rtlConfigs,    \* configuration files, command-line order
  runLibreLane,  \* --run-librelane
  libreLanePath, \* --librelane-path
  dirExists,     \* the output directory exists
  pc,            \* position of main
  exitCode,      \* -1 while running, else the value main returned
  config,        \* RTLConfiguration: rules loaded so far, load order
  loaded,        \* number of configuration files loaded
  session,       \* state of the export session (ASICExportInfo)
  refIdx,        \* next external module of concretizeExternalModules
  resolveFailed, \* concretizeExternalModules has met a failure
  externals,     \* ASICExportInfo::externals
  heap,          \* heap-allocated RTLMatch objects
  files,         \* artifacts of Artifacts written in the output directory
  concretized,   \* source files written by the concretizer
  execBit,       \* the launcher is executable
  spawned,       \* number of times the launcher was executed
  errs,          \* llvm::errs(): diagnostics, in order
  events,        \* stage actions performed so far, in order
  designName,    \* --design-name
  pdk,           \* --pdk
  library,       \* --library
  outputDir,     \* <output directory>
  designFile,    \* main: path of the main design file
  yosysScript,   \* main: text of the synthesis script
  libreLaneConfig \* main: text of the LibreLane configuration

vars == << module, rtlConfigs, runLibreLane, libreLanePath, dirExists, pc,
           exitCode, config, loaded, session, refIdx, resolveFailed,
           externals, heap, files, concretized, execBit, spawned, errs,
           events, designName, pdk, library, outputDir, designFile,
           yosysScript, libreLaneConfig >>

inputs == << module, rtlConfigs, runLibreLane, libreLanePath, designName,
             pdk, library, outputDir >>

texts == << designFile, yosysScript, libreLaneConfig >>

Diag(m, r) == [msg |-> m, ref |-> r]
Event(o, k) == [op |-> o, ok |-> k]

\* a string is a sequence of chunks of characters; concatenation is \o
DesignNames == { <<>>, <<"top">>, <<"my_", "top">> }
Pdks == { <<>>, <<"sky130">> }
Libraries == { <<>>, <<"sky130_fd_sc_hd">> }
OutputDirs == { <<>>, <<"out">>, <<"/tmp/", "out">> }

\* state of main on entry, after the command line was parsed
Start ==
  /\ pc = "parse"
  /\ exitCode = -1
  /\ config = <<>>
  /\ loaded = 0
  /\ session = "None"
  /\ refIdx = 1
  /\ resolveFailed = FALSE
  /\ externals = {}
  /\ heap = <<>>
  /\ files = {}
  /\ concretized = {}
  /\ execBit = FALSE
  /\ spawned = 0
  /\ errs = <<>>
  /\ events = <<>>
  /\ designFile = <<>>
  /\ yosysScript = <<>>
  /\ libreLaneConfig = <<>>

\* every design and configuration list, with the default script parameters
Init ==
  /\ module \in Designs
  /\ rtlConfigs \in ConfigLists
  /\ runLibreLane \in BOOLEAN
  /\ libreLanePath \in FlowPaths
  /\ dirExists \in BOOLEAN
  /\ designName = <<"dynamatic_design">>
  /\ pdk = <<"sky130">>
  /\ library = <<"sky130_fd_sc_hd">>
  /\ outputDir = <<"out">>
  /\ Start

\* every choice of script parameters, with one design and one configuration
GenInit ==
  /\ module = << [name |-> "adder", width |-> 32] >>
  /\ rtlConfigs = << [ok |-> TRUE, rules |-> <<Rule("adder", AnyWidth, "ok")>>] >>
  /\ runLibreLane = TRUE
  /\ libreLanePath = "/opt/librelane"
  /\ dirExists \in BOOLEAN
  /\ designName \in DesignNames
  /\ pdk \in Pdks
  /\ library \in Libraries
  /\ outputDir \in OutputDirs
  /\ Start

(* ------------------------- main: before the session -------------------- *)
\* return 1 before the export session exists
Return1(msg) ==
  /\ errs' = Append(errs, Diag(msg, 0))
  /\ exitCode' = 1
  /\ pc' = "done"

\* main: parse the input MLIR file
ParseInput ==
  /\ pc = "parse"
  /\ \E r \in {"ok", "unreadable", "malformed"} :
       /\ events' = Append(events, Event("parse", r = "ok"))
       /\ IF r = "unreadable" THEN Return1("Could not open input file")
          ELSE IF r = "malformed" THEN Return1("Could not parse the input file")
          ELSE /\ pc' = "mkdir"
               /\ UNCHANGED << errs, exitCode >>
  /\ UNCHANGED << inputs, texts, dirExists, config, loaded, session, refIdx,
                  resolveFailed, externals, heap, files, concretized,
                  execBit, spawned >>

\* a directory creation that treats an existing directory as an error
CreateDirectoriesExclusive(exists, ok) == ~exists /\ ok

\* llvm::sys::fs::create_directories(outputDir): an existing directory is
\* not an error; creating a missing one may fail
CreateDirectories(exists, ok) == exists \/ ok

\* main: create the output directory if it does not exist
CreateOutputDir ==
  /\ pc = "mkdir"
  /\ \E ok \in BOOLEAN :
       LET res == CreateDirectories(dirExists, ok) IN
       /\ events' = Append(events, Event("mkdir", res))
       /\ dirExists' = (dirExists \/ res)
       /\ IF ~res THEN Return1("Could not create output directory")
          ELSE /\ pc' = "loadcfg"
               /\ UNCHANGED << errs, exitCode >>
  /\ UNCHANGED << inputs, texts, config, loaded, session, refIdx, resolveFailed,
                  externals, heap, files, concretized, execBit, spawned >>

\* a loop over rtlConfigs that starts from the last file
NextConfigReversed(k) == Len(rtlConfigs) - k

\* the configuration file the loop of main loads after k files
NextConfig(k) == k + 1

\* RTLConfiguration::parseFromFile: appends the rules of the file, each
\* tagged with its origin, to the rules loaded before
ParseFromFile(cfg, f, file) ==
  cfg \o [p \in 1..Len(file.rules) |->
            [name |-> file.rules[p].name, width |-> file.rules[p].width,
             gen |-> file.rules[p].gen, file |-> f, pos |-> p]]

\* main: one iteration of the loop over rtlConfigs
ParseRTLConfig ==
  /\ pc = "loadcfg"
  /\ loaded < Len(rtlConfigs)
  /\ LET f == NextConfig(loaded) IN
       /\ events' = Append(events, Event("load", rtlConfigs[f].ok))
       /\ IF rtlConfigs[f].ok
          THEN /\ config' = ParseFromFile(config, f, rtlConfigs[f])
               /\ loaded' = loaded + 1
               /\ UNCHANGED << pc, errs, exitCode >>
          ELSE /\ Return1("Could not parse RTL configuration file")
               /\ UNCHANGED << config, loaded >>
  /\ UNCHANGED << inputs, texts, dirExists, session, refIdx, resolveFailed,
                  externals, heap, files, concretized, execBit, spawned >>

\* main: ASICExportInfo exportInfo(...) after the last configuration file
CreateExportInfo ==
  /\ pc = "loadcfg"
  /\ loaded = Len(rtlConfigs)
  /\ session' = "Initialized"
  /\ pc' = "resolve"
  /\ UNCHANGED << inputs, texts, dirExists, exitCode, config, loaded, refIdx,
                  resolveFailed, externals, heap, files, concretized,
                  execBit, spawned, errs, events >>

(* ------------------------- reference matcher --------------------------- *)
\* the predicate of a rule accepts (name, parameters)
Accepts(rule, ref) ==
  /\ rule.name = ref.name
  /\ (rule.width = AnyWidth \/ rule.width = ref.width)

RECURSIVE ScanFrom(_, _, _)
\* linear scan of the rules from position i, in load order
ScanFrom(ref, cfg, i) ==
  IF i > Len(cfg) THEN 0
  ELSE IF Accepts(cfg[i], ref) THEN i
  ELSE ScanFrom(ref, cfg, i + 1)

\* match(reference, library): position of the rule returned, 0 for NotFound
Match(ref, cfg) == ScanFrom(ref, cfg, 1)

(* ------------------------- export session ------------------------------ *)
\* a table keyed by module name: the first module of that name is the key
ExternKeyByName(mod, i) ==
  CHOOSE j \in 1..i :
    /\ mod[j].name = mod[i].name
    /\ \A k \in 1..(j - 1) : mod[k].name # mod[i].name

\* key of an external module in ASICExportInfo::externals: the operation
\* itself, so the i-th external module of the design is its own key
ExternKey(mod, i) == i

\* DenseMap operator[] assignment: one entry per key, the last one wins
DenseMapInsert(map, k, m) ==
  { e \in map : e.key # k } \cup { [key |-> k, match |-> m] }

\* path of the concretized source of a reference
ConcretePath(ref) == [name |-> ref.name, width |-> ref.width]

\* a destructor that deletes nothing
DestroyExportInfoLeak(h, ext) == h

\* ~ASICExportInfo: delete every match of the externals table
DestroyExportInfo(h, ext) ==
  [m \in DOMAIN h |->
     [h[m] EXCEPT !.released = @ + Cardinality({ e \in ext : e.match = m })]]

\* return from main once exportInfo is in scope: its destructor runs
ExitSession(code, st, msgs) ==
  /\ errs' = errs \o msgs
  /\ exitCode' = code
  /\ session' = st
  /\ heap' = DestroyExportInfo(heap, externals)
  /\ pc' = "done"

\* a resolution loop that stops at the first reference it cannot resolve
NextRefStopAtFailure(i, good) == IF good THEN i + 1 ELSE Len(module) + 1

\* concretizeExternalModules: the loop goes on to the next external module
\* whether or not the current one was resolved
NextRef(i, good) == i + 1

\* main calls exportInfo.concretizeExternalModules()
ConcretizeEnter ==
  /\ pc = "resolve"
  /\ pc' = "resolving"
  /\ session' = "Resolving"
  /\ UNCHANGED << inputs, texts, dirExists, exitCode, config, loaded, refIdx,
                  resolveFailed, externals, heap, files, concretized,
                  execBit, spawned, errs, events >>

\* concretizeExternalModules: matcher then concretizer for the next external
\* module of the design, in enumeration order
ConcretizeStep ==
  /\ pc = "resolving"
  /\ refIdx <= Len(module)
  /\ LET ref == module[refIdx]
         r == Match(ref, config)
     IN \E wr \in BOOLEAN :
          LET good == r # 0 /\ config[r].gen = "ok" /\ wr IN
          /\ events' = Append(events, Event("resolve", good))
          /\ IF r = 0
             THEN /\ errs' = Append(errs, Diag("no matching RTL component", refIdx))
                  /\ resolveFailed' = TRUE
                  /\ UNCHANGED << externals, heap, concretized >>
             ELSE IF ~good
             THEN /\ errs' = Append(errs, Diag("failed to concretize", refIdx))
                  /\ resolveFailed' = TRUE
                  /\ UNCHANGED << externals, heap, concretized >>
             ELSE /\ concretized' = concretized \cup {ConcretePath(ref)}
                  /\ heap' = Append(heap, [ref |-> refIdx, rule |-> r,
                                           path |-> ConcretePath(ref),
                                           released |-> 0])
                  /\ externals' = DenseMapInsert(externals,
                                     ExternKey(module, refIdx), Len(heap) + 1)
                  /\ UNCHANGED << errs, resolveFailed >>
          /\ refIdx' = NextRef(refIdx, good)
  /\ UNCHANGED << inputs, texts, dirExists, pc, exitCode, config, loaded, session,
                  files, execBit, spawned >>

\* a driver that takes every result of concretizeExternalModules for a failure
FailedAlways(res) == TRUE

\* a driver that drops the result of concretizeExternalModules
FailedIgnored(res) == FALSE

\* mlir::failed() applied to the result of concretizeExternalModules
Failed(res) == res

\* main: the result of concretizeExternalModules decides whether to go on
CheckConcretize ==
  /\ pc = "resolving"
  /\ refIdx > Len(module)
  /\ IF Failed(resolveFailed)
     THEN /\ ExitSession(1, "Failed",
                << Diag("Failed to concretize external modules", 0) >>)
     ELSE /\ session' = "Resolved"
          /\ pc' = "design"
          /\ UNCHANGED << errs, exitCode, heap >>
  /\ UNCHANGED << inputs, texts, dirExists, config, loaded, refIdx, resolveFailed,
                  externals, files, concretized, execBit, spawned, events >>

(* ------------------------- script generators --------------------------- *)
\* the liberty file of the library inside the PDK, as both generators of
\* the synthesis script spell it after "$::env(PDK_ROOT)/"
LibertyPath(p, l) ==
  p \o <<"/libs.ref/">> \o l \o <<"/liberty/">> \o l \o <<"__tt_025C_1v80.lib">>

\* createLibreLaneConfig: the constant text that follows the library name
ConfigTail ==
  << "\"\n\n# Design configuration\n",
     "set ::env(CLOCK_PERIOD) \"10.0\"\n",
     "set ::env(CLOCK_PORT) \"clock\"\n",
     "set ::env(CLOCK_NET) \"clock\"\n",
     "\n# Floorplan configuration\n",
     "set ::env(DIE_AREA) \"0 0 1000 1000\"\n",
     "set ::env(PLACE_SITE) \"unithd\"\n",
     "set ::env(PLACE_DENSITY) \"0.6\"\n",
     "\n# Synthesis configuration\n",
     "set ::env(SYNTH_STRATEGY) \"DELAY 0\"\n",
     "set ::env(SYNTH_MAX_FANOUT) \"5\"\n",
     "\n# Place and Route configuration\n",
     "set ::env(PLACE_SITE) \"unithd\"\n",
     "set ::env(PLACE_DENSITY) \"0.6\"\n",
     "set ::env(ROUTING_STRATEGY) \"2\"\n",
     "\n# Timing configuration\n",
     "set ::env(STA_WRITE_LIB) \"1\"\n",
     "set ::env(STA_USE_ARC_ENERGY) \"1\"\n",
     "\n# Power configuration\n",
     "set ::env(POWER_OPTIMIZATION) \"1\"\n",
     "\n# Verification\n",
     "set ::env(RUN_KLAYOUT_DRC) \"1\"\n",
     "set ::env(RUN_KLAYOUT_XOR) \"1\"\n" >>

\* a configuration that lists the design file instead of the netlist
createLibreLaneConfigDesignFile(dn, p, l, od) ==
  <<"\n# LibreLane Configuration for ">> \o dn
  \o <<"\n# Generated by Dynamatic ASIC Export Tool\n\n",
       "set ::env(DESIGN_NAME) \"">> \o dn
  \o <<"\"\nset ::env(VERILOG_FILES) \"">>
  \o od \o <<"/">> \o dn \o <<".v">>
  \o <<"\"\nset ::env(PDK) \"">> \o p
  \o <<"\"\nset ::env(STD_CELL_LIBRARY) \"">> \o l
  \o ConfigTail

\* a synthesis script that falls back to the default name when none is given
createASICSynthesisScriptDefaulting(dn, p, l, od) ==
  LET n == IF dn = <<>> THEN <<"dynamatic_design">> ELSE dn IN
  <<"\n# ASIC Synthesis Script for ">> \o n
  \o <<"\n# Generated by Dynamatic ASIC Export Tool\n\n# Read design files\n">>
  \o <<"read_verilog ">> \o od \o <<"/">> \o n \o <<".v", "\n">>
  \o <<"\n# Hierarchy check\nhierarchy -check -top ">> \o n
  \o <<"\n\n# High-level synthesis\nproc; opt; fsm; opt; memory; opt\n\n# Technology mapping\ntechmap; opt\n\n# Map to standard cells\n",
       "dfflibmap -liberty $::env(PDK_ROOT)/">> \o LibertyPath(p, l)
  \o <<"\nabc -liberty $::env(PDK_ROOT)/">> \o LibertyPath(p, l)
  \o <<"\n\n# Write synthesized netlist\nwrite_verilog -noattr ">>
  \o od \o <<"/">> \o n \o <<"_synthesized.v">>
  \o <<"\nwrite_liberty ">> \o od \o <<"/">> \o n \o <<".lib">>
  \o <<"\n\n# Write statistics\nstat -liberty $::env(PDK_ROOT)/">>
  \o LibertyPath(p, l) \o <<"\n">>

\* createASICSynthesisScript(designName, pdk, library, outputDir)
createASICSynthesisScript(dn, p, l, od) ==
  <<"\n# ASIC Synthesis Script for ">> \o dn
  \o <<"\n# Generated by Dynamatic ASIC Export Tool\n\n# Read design files\n">>
  \o <<"read_verilog ">> \o od \o <<"/">> \o dn \o <<".v", "\n">>
  \o <<"\n# Hierarchy check\nhierarchy -check -top ">> \o dn
  \o <<"\n\n# High-level synthesis\nproc; opt; fsm; opt; memory; opt\n\n# Technology mapping\ntechmap; opt\n\n# Map to standard cells\n",
       "dfflibmap -liberty $::env(PDK_ROOT)/">> \o LibertyPath(p, l)
  \o <<"\nabc -liberty $::env(PDK_ROOT)/">> \o LibertyPath(p, l)
  \o <<"\n\n# Write synthesized netlist\nwrite_verilog -noattr ">>
  \o od \o <<"/">> \o dn \o <<"_synthesized.v">>
  \o <<"\nwrite_liberty ">> \o od \o <<"/">> \o dn \o <<".lib">>
  \o <<"\n\n# Write statistics\nstat -liberty $::env(PDK_ROOT)/">>
  \o LibertyPath(p, l) \o <<"\n">>

\* createLibreLaneConfig(designName, pdk, library, outputDir)
createLibreLaneConfig(dn, p, l, od) ==
  <<"\n# LibreLane Configuration for ">> \o dn
  \o <<"\n# Generated by Dynamatic ASIC Export Tool\n\n",
       "set ::env(DESIGN_NAME) \"">> \o dn
  \o <<"\"\nset ::env(VERILOG_FILES) \"">>
  \o od \o <<"/">> \o dn \o <<"_synthesized.v">>
  \o <<"\"\nset ::env(PDK) \"">> \o p
  \o <<"\"\nset ::env(STD_CELL_LIBRARY) \"">> \o l
  \o ConfigTail

\* main: std::string designFile = outputDir + "/" + designName + ".v"
DesignFilePath(od, dn) == od \o <<"/">> \o dn \o <<".v">>

(* ------------------------- main: emission ------------------------------ *)
\* std::ofstream(path).is_open(): needs the directory, and may still fail
IsOpen(ok) == dirExists /\ ok

\* main: write the main design file
WriteDesignFile ==
  /\ pc = "design"
  /\ \E ok \in BOOLEAN :
       LET res == IsOpen(ok) IN
       /\ events' = Append(events, Event("design", res))
       /\ designFile' = DesignFilePath(outputDir, designName)
       /\ IF ~res
          THEN /\ ExitSession(1, "Failed",
                     << Diag("Could not create design file", 0) >>)
               /\ UNCHANGED files
          ELSE /\ files' = files \cup {DesignFile}
               /\ session' = "Emitting"
               /\ pc' = "synth"
               /\ UNCHANGED << errs, exitCode, heap >>
  /\ UNCHANGED << inputs, yosysScript, libreLaneConfig, dirExists, config, loaded, refIdx, resolveFailed,
                  externals, concretized, execBit, spawned >>

\* main: create the Yosys synthesis script
WriteYosysScript ==
  /\ pc = "synth"
  /\ \E ok \in BOOLEAN :
       LET res == IsOpen(ok) IN
       /\ events' = Append(events, Event("synth", res))
       /\ files' = IF res THEN files \cup {YosysFile} ELSE files
  /\ yosysScript' = createASICSynthesisScript(designName, pdk, library, outputDir)
  /\ pc' = "config"
  /\ UNCHANGED << inputs, designFile, libreLaneConfig, dirExists, exitCode, config, loaded, session,
                  refIdx, resolveFailed, externals, heap, concretized,
                  execBit, spawned, errs >>

\* main: create the LibreLane configuration
WriteLibreLaneConfig ==
  /\ pc = "config"
  /\ \E ok \in BOOLEAN :
       LET res == IsOpen(ok) IN
       /\ events' = Append(events, Event("config", res))
       /\ files' = IF res THEN files \cup {LibreLaneConfigFile} ELSE files
  /\ libreLaneConfig' = createLibreLaneConfig(designName, pdk, library, outputDir)
  /\ pc' = "flow"
  /\ UNCHANGED << inputs, designFile, yosysScript, dirExists, exitCode, config, loaded, session,
                  refIdx, resolveFailed, externals, heap, concretized,
                  execBit, spawned, errs >>

(* ------------------------- flow runner --------------------------------- *)
FlowFailed == Diag("LibreLane flow failed", 0)

\* a flow runner without the check of the path
PathEmptyUnchecked(p) == FALSE

\* runLibreLaneFlow: libreLanePath.empty()
PathEmpty(p) == p = ""

\* a driver that waits for the flow even when none was requested
RunLibreLaneWaits ==
  /\ pc = "flow"
  /\ IF ~runLibreLane
     THEN /\ pc' = "flow_wait"
          /\ UNCHANGED << events, errs, exitCode, session, heap >>
     ELSE IF PathEmpty(libreLanePath)
     THEN /\ ExitSession(1, "Failed",
                << Diag("LibreLane path not specified", 0), FlowFailed >>)
          /\ events' = Append(events, Event("flowpath", FALSE))
     ELSE /\ pc' = "flow_create"
          /\ events' = Append(events, Event("flowpath", TRUE))
          /\ UNCHANGED << errs, exitCode, session, heap >>
  /\ UNCHANGED << inputs, texts, dirExists, config, loaded, refIdx,
                  resolveFailed, externals, files, concretized, execBit,
                  spawned >>

\* main: return 0 unless the flow is requested; runLibreLaneFlow: the path
\* check that precedes everything else
RunLibreLane ==
  /\ pc = "flow"
  /\ IF ~runLibreLane
     THEN /\ ExitSession(0, "Complete", <<>>)
          /\ UNCHANGED events
     ELSE IF PathEmpty(libreLanePath)
     THEN /\ ExitSession(1, "Failed",
                << Diag("LibreLane path not specified", 0), FlowFailed >>)
          /\ events' = Append(events, Event("flowpath", FALSE))
     ELSE /\ pc' = "flow_create"
          /\ events' = Append(events, Event("flowpath", TRUE))
          /\ UNCHANGED << errs, exitCode, session, heap >>
  /\ UNCHANGED << inputs, texts, dirExists, config, loaded, refIdx, resolveFailed,
                  externals, files, concretized, execBit, spawned >>

\* runLibreLaneFlow: create the run script
FlowCreateScript ==
  /\ pc = "flow_create"
  /\ \E ok \in BOOLEAN :
       LET res == IsOpen(ok) IN
       /\ events' = Append(events, Event("launcher", res))
       /\ IF ~res
          THEN /\ ExitSession(1, "Failed",
                     << Diag("Cannot create LibreLane run script", 0),
                        FlowFailed >>)
               /\ UNCHANGED files
          ELSE /\ files' = files \cup {RunScript}
               /\ pc' = "flow_chmod"
               /\ UNCHANGED << errs, exitCode, session, heap >>
  /\ UNCHANGED << inputs, texts, dirExists, config, loaded, refIdx, resolveFailed,
                  externals, concretized, execBit, spawned >>

\* a runner that does not look at the status of chmod
ChmodFailedIgnored(status) == FALSE

\* runLibreLaneFlow: system(chmodCmd.c_str()) != 0
ChmodFailed(status) == status # 0

\* runLibreLaneFlow: make the script executable
FlowChmod ==
  /\ pc = "flow_chmod"
  /\ \E status \in {0, 1} :
       /\ events' = Append(events, Event("chmod", status = 0))
       /\ IF ChmodFailed(status)
          THEN /\ ExitSession(1, "Failed",
                     << Diag("Failed to make LibreLane script executable", 0),
                        FlowFailed >>)
               /\ UNCHANGED execBit
          ELSE /\ execBit' = TRUE
               /\ pc' = "flow_exec"
               /\ UNCHANGED << errs, exitCode, session, heap >>
  /\ UNCHANGED << inputs, texts, dirExists, config, loaded, refIdx, resolveFailed,
                  externals, files, concretized, spawned >>

\* runLibreLaneFlow: system(runCmd) starts the child and blocks
FlowExec ==
  /\ pc = "flow_exec"
  /\ spawned' = spawned + 1
  /\ pc' = "flow_wait"
  /\ UNCHANGED << inputs, texts, dirExists, exitCode, config, loaded, session,
                  refIdx, resolveFailed, externals, heap, files, concretized,
                  execBit, errs, events >>

\* a runner that starts the launcher again, once, when the child fails
ChildExitRetry ==
  /\ pc = "flow_wait"
  /\ spawned > 0
  /\ \E result \in {0, 1} :
       /\ events' = Append(events, Event("exec", result = 0))
       /\ IF result # 0 /\ spawned < 2
          THEN /\ pc' = "flow_exec"
               /\ UNCHANGED << errs, exitCode, session, heap >>
          ELSE IF result # 0
          THEN ExitSession(1, "Failed",
                  << Diag("LibreLane flow failed with exit code", 0),
                     FlowFailed >>)
          ELSE ExitSession(0, "Complete", <<>>)
  /\ UNCHANGED << inputs, texts, dirExists, config, loaded, refIdx,
                  resolveFailed, externals, files, concretized, execBit,
                  spawned >>

\* runLibreLaneFlow: the child has exited with status result; main returns
ChildExit ==
  /\ pc = "flow_wait"
  /\ spawned > 0
  /\ \E result \in {0, 1} :
       /\ events' = Append(events, Event("exec", result = 0))
       /\ IF result # 0
          THEN ExitSession(1, "Failed",
                  << Diag("LibreLane flow failed with exit code", 0),
                     FlowFailed >>)
          ELSE ExitSession(0, "Complete", <<>>)
  /\ UNCHANGED << inputs, texts, dirExists, config, loaded, refIdx, resolveFailed,
                  externals, files, concretized, execBit, spawned >>

Next ==
  \/ ParseInput
  \/ CreateOutputDir
  \/ ParseRTLConfig
  \/ CreateExportInfo
  \/ ConcretizeEnter
  \/ ConcretizeStep
  \/ CheckConcretize
  \/ WriteDesignFile
  \/ WriteYosysScript
  \/ WriteLibreLaneConfig
  \/ RunLibreLane
  \/ FlowCreateScript
  \/ FlowChmod
  \/ FlowExec
  \/ ChildExit

Spec == Init /\ [][Next]_vars

\* the steps of the tool itself
MainStep ==
  \/ ParseInput
  \/ CreateOutputDir
  \/ ParseRTLConfig
  \/ CreateExportInfo
  \/ ConcretizeEnter
  \/ ConcretizeStep
  \/ CheckConcretize
  \/ WriteDesignFile
  \/ WriteYosysScript
  \/ WriteLibreLaneConfig
  \/ RunLibreLane
  \/ FlowCreateScript
  \/ FlowChmod
  \/ FlowExec

\* the tool runs to completion without suspension, and a child process that
\* was started exits
FairSpec == Init /\ [][Next]_vars /\ WF_vars(MainStep) /\ WF_vars(ChildExit)

\* the same program over every choice of script parameters
GenSpec == GenInit /\ [][Next]_vars

TypeOK ==
  /\ pc \in {"parse", "mkdir", "loadcfg", "resolve", "resolving", "design",
             "synth", "config", "flow", "flow_create", "flow_chmod",
             "flow_exec", "flow_wait", "done"}
  /\ exitCode \in {-1, 0, 1}
  /\ files \subseteq Artifacts
  /\ session \in {"None", "Initialized", "Resolving", "Resolved", "Emitting",
                  "Complete", "Failed"}

(* ------------------------- properties ---------------------------------- *)
\* the i-th external module of the design has a Match in the session
HasMatch(i) ==
  \E e \in externals :
    /\ e.key = i
    /\ e.match \in DOMAIN heap
    /\ heap[e.match].ref = i

Refs == 1..Len(module)

\* some diagnostic of the error stream carries the message m
Raised(m) == \E k \in DOMAIN errs : errs[k].msg = m

ConfigErrorRaised == Raised("LibreLane path not specified")

\* an action of stage op was attempted and failed
StageFailed(op) == \E k \in DOMAIN events : events[k].op = op /\ ~events[k].ok

\* C1: once concretizeExternalModules has failed on a reference, none of
\* <design-name>.v, synthesize.tcl, config.tcl or the launcher is written;
\* the design file exists only when every external module has a Match.
C1_NoEmissionWithoutMatches ==
  /\ resolveFailed => files = {}
  /\ (\E i \in Refs : i < refIdx /\ ~HasMatch(i)) => files = {}
  /\ DesignFile \in files => \A i \in Refs : HasMatch(i)

\* a finished run whose resolution failed on one reference after another
\* reference had been concretized
C1_Witness ==
  /\ pc = "done"
  /\ exitCode = 1
  /\ resolveFailed
  /\ \E i \in Refs : ~HasMatch(i) /\ Match(module[i], config) = 0
  /\ concretized # {}
  /\ Raised("Failed to concretize external modules")

\* C2: a failure to create <design-name>.v, synthesize.tcl or config.tcl
\* ends the run Failed with exit code 1 and a diagnostic, and a run that
\* exits with code 0 has written all three.
C2_EmissionFailureExits1 ==
  /\ exitCode = 0 =>
       {DesignFile, YosysFile, LibreLaneConfigFile} \subseteq files
  /\ (pc = "done" /\ (StageFailed("design") \/ StageFailed("synth")
                        \/ StageFailed("config")))
       => (exitCode = 1 /\ session = "Failed" /\ errs # <<>>)

\* C3 as stated: when the ConfigError is raised no output artifact has been
\* written.
C3_ConfigErrorBeforeAnyArtifact ==
  ConfigErrorRaised => files = {}

\* C3 as amended: with the flow requested and an empty flow path the run
\* never gets past the path check of the flow runner and never exits with
\* code 0; when the ConfigError is raised the design file has been written,
\* and no launcher has been written, made executable or executed.
C3_ConfigErrorBeforeFlowEffects ==
  /\ (runLibreLane /\ libreLanePath = "") =>
       /\ pc \notin {"flow_create", "flow_chmod", "flow_exec", "flow_wait"}
       /\ exitCode # 0
       /\ RunScript \notin files
  /\ ConfigErrorRaised =>
       /\ runLibreLane /\ libreLanePath = ""
       /\ exitCode = 1 /\ session = "Failed"
       /\ DesignFile \in files
       /\ RunScript \notin files /\ ~execBit /\ spawned = 0

\* the ConfigError was raised after all three artifacts had been written
C3_Witness ==
  /\ ConfigErrorRaised
  /\ pc = "done"
  /\ {DesignFile, YosysFile, LibreLaneConfigFile} \subseteq files

\* C4: runLibreLaneFlow with an empty path returns failure and changes
\* nothing in the filesystem: no launcher, no permission, no child process.
C4_EmptyPathNoEffects ==
  [][(pc = "flow" /\ runLibreLane /\ libreLanePath = "") =>
        /\ files' = files
        /\ concretized' = concretized
        /\ dirExists' = dirExists
        /\ execBit' = execBit
        /\ spawned' = spawned
        /\ exitCode' = 1
        /\ pc' = "done"]_vars

\* the flow runner has failed on an empty path in a directory that holds
\* concretized sources and the design file but no synthesis script
C4_Witness ==
  /\ ConfigErrorRaised
  /\ exitCode = 1
  /\ concretized # {}
  /\ files = {DesignFile, LibreLaneConfigFile}

\* C5: once an action of a stage has failed, no action of a later stage is
\* performed (only the resolution stage goes on to its remaining
\* references).
C5_FailFast ==
  \A i, j \in DOMAIN events :
    (i < j /\ ~events[i].ok) =>
       (events[i].op = "resolve" /\ events[j].op = "resolve")

\* number of actions of stage op attempted so far
Attempts(op) == Cardinality({ k \in DOMAIN events : events[k].op = op })

\* the stages that write into the output directory
WriteOps == {"resolve", "design", "synth", "config", "launcher"}

\* every write was attempted after a successful directory creation
WritesAfterMkdir ==
  \A j \in DOMAIN events :
    events[j].op \in WriteOps =>
      \E i \in 1..(j - 1) : events[i].op = "mkdir" /\ events[i].ok

\* a failed directory creation ends the run with exit code 1 and no write
MkdirFailureIsFinal ==
  StageFailed("mkdir") =>
    /\ ~dirExists
    /\ pc = "done" /\ exitCode = 1
    /\ files = {} /\ concretized = {}
    /\ \A j \in DOMAIN events : events[j].op \notin WriteOps

\* C6 as stated: in every run directory creation is attempted exactly once,
\* before any artifact write; an existing directory is not an error; a
\* failed creation means no write and exit code 1.
C6_MkdirExactlyOnceEveryRun ==
  /\ pc = "done" => Attempts("mkdir") = 1
  /\ WritesAfterMkdir
  /\ MkdirFailureIsFinal

\* C6 as amended: directory creation is attempted at most once in a run, and
\* exactly once in every run whose input was parsed; it precedes every
\* artifact write; an existing directory is not an error; a failed creation
\* means no write is attempted and the run exits with code 1.
C6_OutputDirProtocol ==
  /\ Attempts("mkdir") <= 1
  /\ (pc \notin {"parse", "mkdir"} /\ ~StageFailed("parse"))
       => Attempts("mkdir") = 1
  /\ StageFailed("parse") => Attempts("mkdir") = 0
  /\ WritesAfterMkdir
  /\ MkdirFailureIsFinal

\* a run that ended because the missing output directory could not be made
C6_Witness ==
  /\ StageFailed("mkdir")
  /\ pc = "done"
  /\ Raised("Could not create output directory")

RECURSIVE RulesIn(_)
\* number of rules in the first k configuration files
RulesIn(k) == IF k = 0 THEN 0 ELSE RulesIn(k - 1) + Len(rtlConfigs[k].rules)

\* positions of the loaded rules that accept the reference
Accepting(ref) == { k \in DOMAIN config : Accepts(config[k], ref) }

\* rule a comes before rule b in load order: file order, then in-file order
LoadedBefore(a, b) ==
  a.file < b.file \/ (a.file = b.file /\ a.pos < b.pos)

\* C7: the library holds the rules of the configuration files loaded so
\* far, in command-line order and in-file order, none replaced or dropped;
\* the matcher returns the accepting rule that was loaded first, or NotFound
\* when no rule accepts.
C7_FirstMatchWins ==
  /\ Len(config) = RulesIn(loaded)
  /\ \A k \in DOMAIN config :
       /\ config[k].file \in 1..loaded
       /\ config[k].pos \in 1..Len(rtlConfigs[config[k].file].rules)
       /\ LET src == rtlConfigs[config[k].file].rules[config[k].pos] IN
            /\ src.name = config[k].name
            /\ src.width = config[k].width
            /\ src.gen = config[k].gen
  /\ \A k, l \in DOMAIN config : k < l => LoadedBefore(config[k], config[l])
  /\ \A ref \in ModuleReference :
       LET r == Match(ref, config) IN
       IF Accepting(ref) = {} THEN r = 0
       ELSE /\ r \in Accepting(ref)
            /\ \A k \in Accepting(ref) \ {r} : LoadedBefore(config[r], config[k])
  /\ \A m \in DOMAIN heap :
       /\ heap[m].rule \in Accepting(module[heap[m].ref])
       /\ \A k \in Accepting(module[heap[m].ref]) : heap[m].rule <= k

\* a reference accepted by rules of two files was bound to the rule of the
\* first file
C7_Witness ==
  \E m \in DOMAIN heap :
    \E k \in Accepting(module[heap[m].ref]) :
      /\ config[heap[m].rule].file = 1
      /\ config[k].file = 2

\* C8: when resolution fails, the error stream names every external module
\* of the design that no loaded rule accepts.
C8_EveryUnresolvedNamed ==
  (pc = "done" /\ resolveFailed) =>
    /\ exitCode = 1
    /\ Raised("Failed to concretize external modules")
    /\ \A i \in Refs :
         Accepting(module[i]) = {} =>
           \E d \in DOMAIN errs :
             errs[d].ref = i /\ errs[d].msg = "no matching RTL component"

\* a failed run with two unresolved external modules
C8_Witness ==
  /\ pc = "done"
  /\ resolveFailed
  /\ Cardinality({ i \in Refs : Accepting(module[i]) = {} }) >= 2

\* C9: the session is Resolved only if every external module has a Match;
\* the externals table then has exactly one entry per external module, each
\* bound to a Match of its own, and no other entry.
C9_ResolvedHasAllMatches ==
  session \in {"Resolved", "Emitting"} =>
    /\ ~resolveFailed
    /\ \A i \in Refs :
         /\ HasMatch(i)
         /\ Cardinality({ e \in externals : e.key = i }) = 1
    /\ \A e \in externals : e.key \in Refs
    /\ \A e, f \in externals : e.match = f.match => e = f
    /\ Cardinality(externals) = Len(module)
    /\ Len(heap) = Len(module)

\* a resolved design with two external modules of the same name and
\* different parameters
C9_Witness ==
  /\ session = "Resolved"
  /\ \E i, j \in Refs :
       /\ module[i].name = module[j].name
       /\ module[i].width # module[j].width

\* C10: every Match is held by exactly one entry of the session's externals
\* table, is not released before the session ends, is released exactly once
\* when it ends, whatever the exit path, and nothing runs after the release.
C10_MatchOwnership ==
  /\ session = "None" => heap = <<>>
  /\ \A m \in DOMAIN heap :
       /\ Cardinality({ e \in externals : e.match = m }) = 1
       /\ heap[m].released <= 1
       /\ pc # "done" => heap[m].released = 0
       /\ pc = "done" => heap[m].released = 1
       /\ heap[m].released > 0 => ~ENABLED Next

\* a run that ended in the flow stage after two Matches were created
C10_Witness ==
  /\ pc = "done"
  /\ exitCode = 1
  /\ StageFailed("exec")
  /\ Len(heap) = 2
  /\ \A m \in DOMAIN heap : heap[m].released = 1

\* C11: the launcher is executed at most once in a run; when the child
\* exits non-zero the error is reported, the run ends with exit code 1 and
\* the launcher cannot be executed again.
C11_NoRetry ==
  /\ spawned <= 1
  /\ Attempts("exec") <= spawned
  /\ StageFailed("exec") =>
       /\ pc = "done" /\ exitCode = 1 /\ session = "Failed"
       /\ Raised("LibreLane flow failed with exit code")
       /\ Raised("LibreLane flow failed")
       /\ ~ENABLED FlowExec

\* the child of the only execution of the launcher exited non-zero
C11_Witness ==
  /\ StageFailed("exec")
  /\ spawned = 1
  /\ exitCode = 1

\* no step removes an artifact, a concretized source or the directory
NoArtifactRemoved ==
  [][ /\ files \subseteq files'
      /\ concretized \subseteq concretized'
      /\ dirExists => dirExists' ]_vars

\* C12: no step removes an artifact or a concretized source written earlier
\* in the run; after a resolution failure every source concretized for
\* another reference is on disk; after a failed execution of the launcher
\* the design file, synthesize.tcl, config.tcl and the launcher are on disk;
\* both runs end with exit code 1.
C12_NoRollback ==
  [][ /\ files \subseteq files'
      /\ concretized \subseteq concretized'
      /\ dirExists => dirExists'
      /\ (pc' = "done" /\ resolveFailed') =>
           /\ exitCode' = 1
           /\ \A m \in DOMAIN heap' : heap'[m].path \in concretized'
      /\ (pc' = "done" /\ \E k \in DOMAIN events' :
                             events'[k].op = "exec" /\ ~events'[k].ok) =>
           /\ exitCode' = 1
           /\ {DesignFile, YosysFile, LibreLaneConfigFile, RunScript}
                \subseteq files'
    ]_vars

\* position of a stage in the order of main
Rank(op) ==
  CASE op = "parse" -> 1
    [] op = "mkdir" -> 2
    [] op = "load" -> 3
    [] op = "resolve" -> 4
    [] op = "design" -> 5
    [] op = "synth" -> 6
    [] op = "config" -> 7
    [] op = "flowpath" -> 8
    [] op = "launcher" -> 9
    [] op = "chmod" -> 10
    [] op = "exec" -> 11

\* the stage actions occur in the order of main, each stage once, the
\* configuration files and the references one after the other; Matches are
\* created in the enumeration order of the design; the launcher exists only
\* if the flow was requested
StagesInOrder ==
  /\ \A i, j \in DOMAIN events :
       i < j =>
         \/ Rank(events[i].op) < Rank(events[j].op)
         \/ /\ events[i].op = events[j].op
            /\ events[i].op \in {"load", "resolve"}
  /\ Attempts("load") <= Len(rtlConfigs)
  /\ Attempts("resolve") <= Len(module)
  /\ \A m, n \in DOMAIN heap : m < n => heap[m].ref < heap[n].ref
  /\ (RunScript \in files \/ spawned > 0) => runLibreLane

\* C13: the events of a run occur only in the order parse, create
\* directory, load configurations, resolve references in enumeration order,
\* write <design-name>.v, write synthesize.tcl, write config.tcl, write
\* launcher, execute launcher, each stage at most once; the launcher is
\* written and executed only if the flow was requested and never before
\* config.tcl has been emitted.
C13_StageOrdering ==
  /\ StagesInOrder
  /\ RunScript \in files => LibreLaneConfigFile \in files
  /\ spawned > 0 => LibreLaneConfigFile \in files

\* C14: for a design without external modules, whatever the library,
\* concretizeExternalModules succeeds, creates no Match, writes no
\* concretized source, and the run goes on to write the design file.
C14_VacuousResolution ==
  Len(module) = 0 =>
    /\ ~resolveFailed
    /\ heap = <<>> /\ externals = {} /\ concretized = {}
    /\ Attempts("resolve") = 0
    /\ ~Raised("Failed to concretize external modules")
    /\ session \notin {"None", "Initialized", "Resolving"} =>
         (pc = "design" \/ Attempts("design") = 1)

\* a design without external modules was resolved against a library
\* without rules
C14_Witness ==
  /\ Len(module) = 0
  /\ loaded >= 1 /\ config = <<>>
  /\ session = "Resolved"
  /\ pc = "design"

FlowOps == {"launcher", "chmod", "exec"}

\* an action of stage op was attempted and succeeded
Wrote(op) == \E k \in DOMAIN events : events[k].op = op /\ events[k].ok

\* C16: with a non-empty flow path the runner creates the launcher, then
\* makes it executable, then executes it, each step only after the one
\* before succeeded; when the creation or the permission change fails the
\* error is reported, the run ends with exit code 1 and the launcher is
\* never executed.
C16_FlowRunnerOrder ==
  /\ \A i, j \in DOMAIN events :
       (i < j /\ events[i].op \in FlowOps /\ events[j].op \in FlowOps) =>
          /\ Rank(events[i].op) < Rank(events[j].op)
          /\ events[i].ok
  /\ (\E k \in DOMAIN events : events[k].op \in FlowOps) =>
       (runLibreLane /\ libreLanePath # "")
  /\ Attempts("chmod") > 0 => (Wrote("launcher") /\ RunScript \in files)
  /\ spawned > 0 =>
       /\ Wrote("launcher") /\ Wrote("chmod")
       /\ RunScript \in files /\ execBit
  /\ (StageFailed("launcher") \/ StageFailed("chmod")) =>
       /\ spawned = 0
       /\ pc = "done" /\ exitCode = 1 /\ session = "Failed"
       /\ Raised("LibreLane flow failed")
       /\ ~ENABLED FlowExec
  /\ StageFailed("launcher") => Raised("Cannot create LibreLane run script")
  /\ StageFailed("chmod") =>
       Raised("Failed to make LibreLane script executable")

\* the launcher was written but could not be made executable
C16_Witness ==
  /\ StageFailed("chmod")
  /\ RunScript \in files
  /\ spawned = 0
  /\ pc = "done"

\* the substitution points required of the synthesis script, between the
\* constant text that surrounds them
SynthTemplate ==
  << [lit |-> "\n# ASIC Synthesis Script for ", arg |-> ""],
     [lit |-> "", arg |-> "designName"],
     [lit |-> "\n# Generated by Dynamatic ASIC Export Tool\n\n# Read design files\n", arg |-> ""],
     [lit |-> "read_verilog ", arg |-> ""],
     [lit |-> "", arg |-> "outputDir"],
     [lit |-> "/", arg |-> ""],
     [lit |-> "", arg |-> "designName"],
     [lit |-> ".v", arg |-> ""],
     [lit |-> "\n", arg |-> ""],
     [lit |-> "\n# Hierarchy check\nhierarchy -check -top ", arg |-> ""],
     [lit |-> "", arg |-> "designName"],
     [lit |-> "\n\n# High-level synthesis\nproc; opt; fsm; opt; memory; opt\n\n# Technology mapping\ntechmap; opt\n\n# Map to standard cells\n", arg |-> ""],
     [lit |-> "dfflibmap -liberty $::env(PDK_ROOT)/", arg |-> ""],
     [lit |-> "", arg |-> "pdk"],
     [lit |-> "/libs.ref/", arg |-> ""],
     [lit |-> "", arg |-> "library"],
     [lit |-> "/liberty/", arg |-> ""],
     [lit |-> "", arg |-> "library"],
     [lit |-> "__tt_025C_1v80.lib", arg |-> ""],
     [lit |-> "\nabc -liberty $::env(PDK_ROOT)/", arg |-> ""],
     [lit |-> "", arg |-> "pdk"],
     [lit |-> "/libs.ref/", arg |-> ""],
     [lit |-> "", arg |-> "library"],
     [lit |-> "/liberty/", arg |-> ""],
     [lit |-> "", arg |-> "library"],
     [lit |-> "__tt_025C_1v80.lib", arg |-> ""],
     [lit |-> "\n\n# Write synthesized netlist\nwrite_verilog -noattr ", arg |-> ""],
     [lit |-> "", arg |-> "outputDir"],
     [lit |-> "/", arg |-> ""],
     [lit |-> "", arg |-> "designName"],
     [lit |-> "_synthesized.v", arg |-> ""],
     [lit |-> "\nwrite_liberty ", arg |-> ""],
     [lit |-> "", arg |-> "outputDir"],
     [lit |-> "/", arg |-> ""],
     [lit |-> "", arg |-> "designName"],
     [lit |-> ".lib", arg |-> ""],
     [lit |-> "\n\n# Write statistics\nstat -liberty $::env(PDK_ROOT)/", arg |-> ""],
     [lit |-> "", arg |-> "pdk"],
     [lit |-> "/libs.ref/", arg |-> ""],
     [lit |-> "", arg |-> "library"],
     [lit |-> "/liberty/", arg |-> ""],
     [lit |-> "", arg |-> "library"],
     [lit |-> "__tt_025C_1v80.lib", arg |-> ""],
     [lit |-> "\n", arg |-> ""] >>

\* the substitution points required of the backend configuration; the
\* constant text after the library name follows them
ConfigTemplate ==
  << [lit |-> "\n# LibreLane Configuration for ", arg |-> ""],
     [lit |-> "", arg |-> "designName"],
     [lit |-> "\n# Generated by Dynamatic ASIC Export Tool\n\n", arg |-> ""],
     [lit |-> "set ::env(DESIGN_NAME) \"", arg |-> ""],
     [lit |-> "", arg |-> "designName"],
     [lit |-> "\"\nset ::env(VERILOG_FILES) \"", arg |-> ""],
     [lit |-> "", arg |-> "outputDir"],
     [lit |-> "/", arg |-> ""],
     [lit |-> "", arg |-> "designName"],
     [lit |-> "_synthesized.v", arg |-> ""],
     [lit |-> "\"\nset ::env(PDK) \"", arg |-> ""],
     [lit |-> "", arg |-> "pdk"],
     [lit |-> "\"\nset ::env(STD_CELL_LIBRARY) \"", arg |-> ""],
     [lit |-> "", arg |-> "library"] >>
  \o [k \in DOMAIN ConfigTail |-> [lit |-> ConfigTail[k], arg |-> ""]]

NoParse == [ok |-> FALSE, binds |-> <<>>]

RECURSIVE ParseFrom(_, _, _, _)
\* reads text from position i against the template from item j: constant
\* text must be there as written, a substitution point takes everything up
\* to the constant text that follows it
ParseFrom(text, tpl, i, j) ==
  IF j > Len(tpl) THEN [ok |-> i = Len(text) + 1, binds |-> <<>>]
  ELSE IF tpl[j].arg = ""
  THEN IF i <= Len(text) /\ text[i] = tpl[j].lit
       THEN ParseFrom(text, tpl, i + 1, j + 1)
       ELSE NoParse
  ELSE LET stops == { k \in i..Len(text) : text[k] = tpl[j + 1].lit } IN
       IF stops = {} THEN NoParse
       ELSE LET k == CHOOSE x \in stops : \A y \in stops : x <= y
                rest == ParseFrom(text, tpl, k, j + 1)
            IN [ok |-> rest.ok,
                binds |-> << [arg |-> tpl[j].arg,
                              val |-> SubSeq(text, i, k - 1)] >> \o rest.binds]

\* the value passed for a parameter of the generators
Passed(arg) ==
  CASE arg = "designName" -> designName
    [] arg = "pdk" -> pdk
    [] arg = "library" -> library
    [] arg = "outputDir" -> outputDir

\* the text has the shape of the template and every substitution point
\* holds the passed value of its parameter, nothing more and nothing less
Substituted(text, tpl) ==
  LET r == ParseFrom(text, tpl, 1, 1) IN
  /\ r.ok
  /\ Len(r.binds) = Cardinality({ j \in DOMAIN tpl : tpl[j].arg # "" })
  /\ \A k \in DOMAIN r.binds : r.binds[k].val = Passed(r.binds[k].arg)

\* C15: for all values of designName, pdk, library and outputDir, the empty
\* string included, the synthesis script and the backend configuration hold
\* the passed values verbatim at every substitution point.
C15_VerbatimSubstitution ==
  /\ yosysScript # <<>> => Substituted(yosysScript, SynthTemplate)
  /\ libreLaneConfig # <<>> => Substituted(libreLaneConfig, ConfigTemplate)

\* both texts were generated from an empty design name, pdk and library
C15_Witness ==
  /\ yosysScript # <<>>
  /\ libreLaneConfig # <<>>
  /\ designName = <<>> /\ pdk = <<>> /\ library = <<>>

\* the text between the first chunk a and the first chunk b after it
Between(text, a, b) ==
  LET i == CHOOSE x \in DOMAIN text :
             text[x] = a /\ \A y \in 1..(x - 1) : text[y] # a
      j == CHOOSE x \in (i + 1)..Len(text) :
             text[x] = b /\ \A y \in (i + 1)..(x - 1) : text[y] # b
  IN SubSeq(text, i + 1, j - 1)

\* C17: the path of the design file main writes is the path the synthesis
\* script reads with read_verilog, and the netlist path the synthesis script
\* writes with write_verilog is the path the backend configuration lists in
\* VERILOG_FILES.
C17_PathConsistency ==
  /\ yosysScript # <<>> =>
       Between(yosysScript, "read_verilog ", "\n") = designFile
  /\ libreLaneConfig # <<>> =>
       Between(yosysScript,
               "\n\n# Write synthesized netlist\nwrite_verilog -noattr ",
               "\nwrite_liberty ")
         = Between(libreLaneConfig, "\"\nset ::env(VERILOG_FILES) \"",
                   "\"\nset ::env(PDK) \"")

\* both scripts were generated for a design name and an output directory
\* of several chunks
C17_Witness ==
  /\ libreLaneConfig # <<>>
  /\ designName = <<"my_", "top">>
  /\ outputDir = <<"/tmp/", "out">>
  /\ LibreLaneConfigFile \in files

\* C18: provided a started child process exits, every run ends, with exit
\* code 0 and the session Complete or with exit code 1; a run without the
\* flow never starts or waits for a child process.
C18_Termination ==
  /\ <>(pc = "done")
  /\ [](pc = "done" =>
          \/ exitCode = 0 /\ session = "Complete"
          \/ exitCode = 1 /\ session \in {"None", "Failed"})
  /\ [](pc # "done" => exitCode = -1)
  /\ [](~runLibreLane =>
          /\ spawned = 0
          /\ pc \notin {"flow_create", "flow_chmod", "flow_exec", "flow_wait"})

\* a run that ended with exit code 0 after its child process had exited
C18_Witness ==
  /\ pc = "done"
  /\ exitCode = 0
  /\ spawned = 1
====
